---- MODULE Spec2Model ----
(***************************************************************************)
(* InteractionService.get_interactions                                     *)
(* (src/domain/services/interaction_service.py) as a state machine: one    *)
(* request runs through name resolution, detail lookup, enrichment,        *)
(* substance indexing, pair generation, external filtering, contrast       *)
(* lookup, row assembly and pagination.  Each store call is a suspension   *)
(* point whose answer is drawn from the answers the repository can give.   *)
(***************************************************************************)
EXTENDS Integers, Sequences, FiniteSets, TLC

(* ---------------------------------------------------------------------- *)
(* Bounds and small value sets                                             *)
(* ---------------------------------------------------------------------- *)
MaxItems == 2
MaxPage == 2
MaxRow == 2

None == 0
NoName == ""
Sids == {1, 2, 3}
EntrySids == {1}
Tpus == {11}
Names == {"n1"}
NameTargets == {2}
Gps == {21}
TpuSubs == <<2, 3>>

NoEntry == [absent |-> TRUE]
KeyError == -1

Range(s) == {s[i] : i \in 1..Len(s)}
Min(a, b) == IF a <= b THEN a ELSE b

(* ---------------------------------------------------------------------- *)
(* DrugItem and DrugPayload                                                *)
(* ---------------------------------------------------------------------- *)
DrugItem ==
    [name : Names \cup {NoName}, subs_code : EntrySids \cup {None},
     tpu_code : Tpus \cup {None}, gp_code : {None}]

SeqsUpTo(S, n) == UNION {[1..k -> S] : k \in 0..n}

(* The service never reads the name of a current entry. *)
CurrentItem == {it \in DrugItem : it.name = NoName}

DrugPayload ==
    {p \in [drug_currents : SeqsUpTo(CurrentItem, MaxItems),
            drug_histories : SeqsUpTo(DrugItem, MaxItems)] :
        Len(p.drug_currents) + Len(p.drug_histories) <= MaxItems}

(* utils.helpers.codes_from_item: the codes an entry can be looked up by,  *)
(* in a fixed order (substance code, trade-unit code, hierarchy code).     *)
codes_from_item(it) ==
    SelectSeq(<<it.subs_code, it.tpu_code, it.gp_code>>, LAMBDA c : c # None)

(* dict.get(key) and dict[key] *)
Get(d, k) == IF k \in DOMAIN d THEN d[k] ELSE NoEntry
Subscript(d, k) == IF k \in DOMAIN d THEN d[k] ELSE KeyError

(* ---------------------------------------------------------------------- *)
(* Repository answers (the store is a collaborator: any answer keyed by    *)
(* the requested keys is possible)                                         *)
(* ---------------------------------------------------------------------- *)
PartialFns(K, V) == UNION {[D -> V] : D \in SUBSET K}

(* repo.resolve_names(names): name -> substance code, for some of the names *)
ResolveNamesAnswers(names) == PartialFns(Range(names), NameTargets)

(* A detail record: the substance codes the code maps to, and the          *)
(* hierarchy code the enricher copies.                                     *)
DetailChoices(c) ==
    IF c \in Sids
    THEN {[subs_codes |-> <<>>, gp_code |-> None],
          [subs_codes |-> <<c>>, gp_code |-> None]}
    ELSE {[subs_codes |-> <<>>, gp_code |-> CHOOSE g \in Gps : TRUE],
          [subs_codes |-> TpuSubs, gp_code |-> CHOOSE g \in Gps : TRUE]}

(* repo.query_details(codes): code -> detail record, for some of the codes *)
QueryDetailsAnswers(codes) ==
    UNION {{f \in [D -> UNION {DetailChoices(c) : c \in D}] :
               \A c \in D : f[c] \in DetailChoices(c)} : D \in SUBSET codes}

(* repo.fetch_external_status(tpus): tpu code -> bool, for some of the codes *)
FetchExternalStatusAnswers(tpus) == PartialFns(Range(tpus), BOOLEAN)

(* One interaction record as the store returns it. *)
Record(a, b) ==
    [sub1_id |-> a, sub2_id |-> b, severity |-> 10 * a + b]

RECURSIVE RecordsFor(_, _)
RecordsFor(prs, how) ==
    IF prs = <<>> THEN <<>>
    ELSE LET p == Head(prs)
             h == Head(how)
             r == IF h = "fwd" THEN <<Record(p[1], p[2])>>
                  ELSE IF h = "rev" THEN <<Record(p[2], p[1])>>
                  ELSE IF h = "both" THEN <<Record(p[2], p[1]), Record(p[1], p[2])>>
                  ELSE <<>>
         IN  r \o RecordsFor(Tail(prs), Tail(how))

(* repo.fetch_contrasts(pairs): per pair no record, the record stored      *)
(* under either ordering of the two substance ids, or both                 *)
FetchContrastsAnswers(prs) ==
    {RecordsFor(prs, how) : how \in [1..Len(prs) -> {"none", "fwd", "rev", "both"}]}

(* ---------------------------------------------------------------------- *)
(* 1) Name resolution                                                      *)
(* ---------------------------------------------------------------------- *)
NamesToResolve(h) ==
    LET s == SelectSeq(h, LAMBDA it : codes_from_item(it) = <<>> /\ it.name # NoName)
    IN  [i \in 1..Len(s) |-> s[i].name]

(* variant: the subscript without the membership test of line 45 *)
ResolveItemUnguarded(it, name_map) ==
    [it EXCEPT !.subs_code = Subscript(name_map, it.name)]

ResolveItem(it, name_map) ==
    IF it.name \in DOMAIN name_map
    THEN [it EXCEPT !.subs_code = Subscript(name_map, it.name)]
    ELSE it

ResolveHistories(h, name_map) == [i \in 1..Len(h) |-> ResolveItem(h[i], name_map)]

(* ---------------------------------------------------------------------- *)
(* 2) Code collection, 3) enrichment                                       *)
(* ---------------------------------------------------------------------- *)
CodesOf(items) == UNION {Range(codes_from_item(items[i])) : i \in 1..Len(items)}

AllCodes(c, h) == CodesOf(c) \cup CodesOf(h)

(* utils.helpers.enrich_items: fills the entry's missing hierarchy code    *)
(* from the first of its codes whose detail record carries one.            *)
EnrichItem(it, detail_map) ==
    LET known == SelectSeq(codes_from_item(it),
                     LAMBDA c : c \in DOMAIN detail_map /\ detail_map[c].gp_code # None)
    IN  IF it.gp_code = None /\ known # <<>>
        THEN [it EXCEPT !.gp_code = detail_map[Head(known)].gp_code]
        ELSE it

enrich_items(items, detail_map) ==
    [i \in 1..Len(items) |-> EnrichItem(items[i], detail_map)]

(* ---------------------------------------------------------------------- *)
(* 4) Substance index                                                      *)
(* ---------------------------------------------------------------------- *)
(* variant: without the break of line 70, every matching code contributes *)
RECURSIVE UnionSubs(_, _)
UnionSubs(codes, detail_map) ==
    IF codes = <<>> THEN <<>>
    ELSE LET entry == Get(detail_map, Head(codes))
         IN  (IF entry # NoEntry THEN entry.subs_codes ELSE <<>>)
                 \o UnionSubs(Tail(codes), detail_map)

RECURSIVE WinningSubs(_, _)
WinningSubs(codes, detail_map) ==
    IF codes = <<>> THEN <<>>
    ELSE LET entry == Get(detail_map, Head(codes))
         IN  IF entry # NoEntry /\ entry.subs_codes # <<>>
             THEN entry.subs_codes
             ELSE WinningSubs(Tail(codes), detail_map)

(* subs_to_items.setdefault(sid, []).append(itm) for each sid in order *)
RECURSIVE AppendUnder(_, _, _)
AppendUnder(idx, sids, ref) ==
    IF sids = <<>> THEN idx
    ELSE LET sid == Head(sids)
             nxt == IF sid \in DOMAIN idx
                    THEN [idx EXCEPT ![sid] = Append(@, ref)]
                    ELSE [k \in DOMAIN idx \cup {sid} |->
                             IF k = sid THEN <<ref>> ELSE idx[k]]
         IN  AppendUnder(nxt, Tail(sids), ref)

(* Items are referred to by position: currents first, then histories. *)
RECURSIVE IndexFrom(_, _, _, _)
IndexFrom(idx, ref, items, detail_map) ==
    IF ref > Len(items) THEN idx
    ELSE IndexFrom(
             AppendUnder(idx, WinningSubs(codes_from_item(items[ref]), detail_map), ref),
             ref + 1, items, detail_map)

BuildIndex(c, h, detail_map) == IndexFrom(<<>>, 1, c \o h, detail_map)

(* ---------------------------------------------------------------------- *)
(* 5) Pairs                                                                *)
(* ---------------------------------------------------------------------- *)
RECURSIVE Sorted(_)
Sorted(S) ==
    IF S = {} THEN <<>>
    ELSE LET m == CHOOSE x \in S : \A y \in S : x <= y
         IN  <<m>> \o Sorted(S \ {m})

(* itertools.combinations(seq, 2) *)
RECURSIVE Combinations2(_)
Combinations2(s) ==
    IF Len(s) < 2 THEN <<>>
    ELSE [i \in 1..(Len(s) - 1) |-> <<s[1], s[i + 1]>>] \o Combinations2(Tail(s))

(* variant: the keys taken in descending order *)
GeneratePairsDescending(idx) ==
    LET s == Sorted(DOMAIN idx)
    IN  Combinations2([i \in 1..Len(s) |-> s[Len(s) + 1 - i]])

GeneratePairs(idx) == Combinations2(Sorted(DOMAIN idx))

(* ---------------------------------------------------------------------- *)
(* 5.5-5.7) External filter                                                *)
(* ---------------------------------------------------------------------- *)
AllTpuCodes(c, h) ==
    LET s == SelectSeq(c \o h, LAMBDA it : it.tpu_code # None)
    IN  [i \in 1..Len(s) |-> s[i].tpu_code]

IsExternal(it, status) ==
    /\ it.tpu_code # None
    /\ IF it.tpu_code \in DOMAIN status THEN status[it.tpu_code] ELSE FALSE

(* variant: only the entries of the first substance are examined *)
ShouldIncludeFirstSide(pr, idx, items, status) ==
    LET items1 == IF pr[1] \in DOMAIN idx THEN idx[pr[1]] ELSE <<>>
    IN  \A i \in 1..Len(items1) : ~IsExternal(items[items1[i]], status)

ShouldInclude(pr, idx, items, status) ==
    LET items1 == IF pr[1] \in DOMAIN idx THEN idx[pr[1]] ELSE <<>>
        items2 == IF pr[2] \in DOMAIN idx THEN idx[pr[2]] ELSE <<>>
        all_items == items1 \o items2
    IN  \A i \in 1..Len(all_items) : ~IsExternal(items[all_items[i]], status)

FilterPairs(prs, idx, items, status) ==
    SelectSeq(prs, LAMBDA pr : ShouldInclude(pr, idx, items, status))

(* ---------------------------------------------------------------------- *)
(* 6-7) Contrast lookup and row assembly                                   *)
(* ---------------------------------------------------------------------- *)
(* pair_to_data[(a, b)]: the last record returned under that key *)
PairToData(records, a, b) ==
    LET hits == SelectSeq(records, LAMBDA r : r.sub1_id = a /\ r.sub2_id = b)
    IN  IF hits = <<>> THEN NoEntry ELSE hits[Len(hits)]

(* variant: the record is looked up under the pair's own ordering only *)
FindRecordForward(records, pr) == PairToData(records, pr[1], pr[2])

FindRecord(records, pr) ==
    LET fwd == PairToData(records, pr[1], pr[2])
    IN  IF fwd # NoEntry THEN fwd ELSE PairToData(records, pr[2], pr[1])

(* utils.helpers.fill_codes: the entry's own coding fields for one role *)
fill_codes(role, it) ==
    [role |-> role, name |-> it.name, subs_code |-> it.subs_code,
     tpu_code |-> it.tpu_code, gp_code |-> it.gp_code]

ContrastItem(n, in_ref, ct_ref, rec, items) ==
    [ref_id |-> n,
     input |-> in_ref,
     contrast |-> ct_ref,
     input_fields |-> fill_codes("input", items[in_ref]),
     contrast_fields |-> fill_codes("contrast", items[ct_ref]),
     contrast_type |-> 0,
     severity |-> rec.severity,
     input_substances |-> rec.sub1_id,
     contrast_substances |-> rec.sub2_id]

(* variant: the two entry lists walked in step instead of nested *)
RowsOfPairZip(acc, items1, items2, rec, items) ==
    LET n == Min(Len(items1), Len(items2))
    IN  acc \o [k \in 1..n |->
                   ContrastItem(Len(acc) + k, items1[k], items2[k], rec, items)]

(* the cross join of one pair, appended to the rows built so far *)
RowsOfPair(acc, items1, items2, rec, items) ==
    LET n == Len(items1) * Len(items2)
        w == Len(items2)
    IN  acc \o [k \in 1..n |->
                   ContrastItem(Len(acc) + k,
                                items1[((k - 1) \div w) + 1],
                                items2[((k - 1) % w) + 1],
                                rec, items)]

RECURSIVE AssembleFrom(_, _, _, _, _)
AssembleFrom(acc, prs, idx, records, items) ==
    IF prs = <<>> THEN acc
    ELSE LET pr == Head(prs)
             rec == FindRecord(records, pr)
         IN  IF rec = NoEntry
             THEN AssembleFrom(acc, Tail(prs), idx, records, items)
             ELSE AssembleFrom(
                      RowsOfPair(acc,
                                 IF pr[1] \in DOMAIN idx THEN idx[pr[1]] ELSE <<>>,
                                 IF pr[2] \in DOMAIN idx THEN idx[pr[2]] ELSE <<>>,
                                 rec, items),
                      Tail(prs), idx, records, items)

Assemble(prs, idx, records, items) == AssembleFrom(<<>>, prs, idx, records, items)

(* ---------------------------------------------------------------------- *)
(* 8) Pagination                                                           *)
(* ---------------------------------------------------------------------- *)
(* list[start:end] for 0 <= start <= end *)
Slice(s, start, end) == SubSeq(s, Min(start, Len(s)) + 1, Min(end, Len(s)))

(* variant: total counted after slicing *)
PaginateTotalOfPage(rs, pg, rw) ==
    LET start == (pg - 1) * rw
        page_data == Slice(rs, start, start + rw)
    IN  [status |-> TRUE, code |-> 200, message |-> "get success",
         pagination |-> [page |-> pg, row |-> Len(page_data), total |-> Len(page_data)],
         data |-> page_data]

Paginate(rs, pg, rw) ==
    LET total == Len(rs)
        start == (pg - 1) * rw
        end == start + rw
        page_data == Slice(rs, start, end)
    IN  [status |-> TRUE, code |-> 200, message |-> "get success",
         pagination |-> [page |-> pg, row |-> Len(page_data), total |-> total],
         data |-> page_data]

(* ---------------------------------------------------------------------- *)
(* State                                                                   *)
(* ---------------------------------------------------------------------- *)
VARIABLES
    pc,                  \* where the call is
    payload,             \* the request as submitted
    page, row,           \* the call's page and row arguments, once read (line 165)
    drug_currents,       \* payload.drug_currents, mutated in place
    drug_histories,      \* payload.drug_histories, mutated in place
    name_map, detail_map, external_status_map, raw_records,  \* store answers
    subs_to_items, pairs, filtered_pairs, rows,
    response,
    error                \* the exception that ended the call, if any

vars == <<pc, payload, page, row, drug_currents, drug_histories, name_map,
          detail_map, external_status_map, raw_records, subs_to_items, pairs,
          filtered_pairs, rows, response, error>>

Unset == <<>>
NoError == "none"

Items == drug_currents \o drug_histories

Init ==
    /\ pc = "start"
    /\ payload \in DrugPayload
    /\ page = Unset
    /\ row = Unset
    /\ drug_currents = payload.drug_currents
    /\ drug_histories = payload.drug_histories
    /\ name_map = Unset
    /\ detail_map = Unset
    /\ external_status_map = Unset
    /\ raw_records = Unset
    /\ subs_to_items = Unset
    /\ pairs = Unset
    /\ filtered_pairs = Unset
    /\ rows = Unset
    /\ response = Unset
    /\ error = NoError

(* lines 34-46 *)
ResolveNames ==
    /\ pc = "start"
    /\ LET names_to_resolve == NamesToResolve(drug_histories)
       IN  IF names_to_resolve = <<>>
           THEN /\ pc' = "resolved"
                /\ UNCHANGED <<drug_histories, name_map, error>>
           ELSE \E nm \in ResolveNamesAnswers(names_to_resolve) :
                    LET h == ResolveHistories(drug_histories, nm)
                    IN  /\ name_map' = nm
                        /\ IF \E i \in 1..Len(h) : h[i].subs_code = KeyError
                           THEN /\ pc' = "failed"
                                /\ error' = "KeyError"
                                /\ UNCHANGED drug_histories
                           ELSE /\ pc' = "resolved"
                                /\ drug_histories' = h
                                /\ UNCHANGED error
    /\ UNCHANGED <<payload, page, row, drug_currents, detail_map,
                   external_status_map, raw_records, subs_to_items, pairs,
                   filtered_pairs, rows, response>>

(* lines 48-54 *)
QueryDetails ==
    /\ pc = "resolved"
    /\ \E dm \in QueryDetailsAnswers(AllCodes(drug_currents, drug_histories)) :
           detail_map' = dm
    /\ pc' = "detailed"
    /\ UNCHANGED <<payload, page, row, drug_currents, drug_histories, name_map,
                   external_status_map, raw_records, subs_to_items, pairs,
                   filtered_pairs, rows, response, error>>

(* lines 56-76 *)
EnrichAndIndex ==
    /\ pc = "detailed"
    /\ drug_currents' = enrich_items(drug_currents, detail_map)
    /\ drug_histories' = enrich_items(drug_histories, detail_map)
    /\ subs_to_items' = BuildIndex(drug_currents', drug_histories', detail_map)
    /\ pairs' = GeneratePairs(subs_to_items')
    /\ pc' = "paired"
    /\ UNCHANGED <<payload, page, row, name_map, detail_map,
                   external_status_map, raw_records, filtered_pairs, rows,
                   response, error>>

(* lines 80-114 *)
ExternalFilter ==
    /\ pc = "paired"
    /\ \E st \in FetchExternalStatusAnswers(AllTpuCodes(drug_currents, drug_histories)) :
           /\ external_status_map' = st
           /\ filtered_pairs' = FilterPairs(pairs, subs_to_items, Items, st)
    /\ pc' = "filtered"
    /\ UNCHANGED <<payload, page, row, drug_currents, drug_histories, name_map,
                   detail_map, raw_records, subs_to_items, pairs, rows,
                   response, error>>

(* lines 118-177; page and row are first read here *)
AssembleAndRespond ==
    /\ pc = "filtered"
    /\ \E recs \in FetchContrastsAnswers(filtered_pairs) :
           /\ raw_records' = recs
           /\ rows' = Assemble(filtered_pairs, subs_to_items, recs, Items)
    /\ page' \in 1..MaxPage
    /\ row' \in 1..MaxRow
    /\ response' = Paginate(rows', page', row')
    /\ pc' = "done"
    /\ UNCHANGED <<payload, drug_currents, drug_histories, name_map,
                   detail_map, external_status_map, subs_to_items, pairs,
                   filtered_pairs, error>>

(* a store call raises (lines 43, 54, 88, 119): the exception propagates *)
StoreFails ==
    /\ \/ pc = "start" /\ NamesToResolve(drug_histories) # <<>>
       \/ pc \in {"resolved", "paired", "filtered"}
    /\ pc' = "failed"
    /\ error' = "StoreError"
    /\ UNCHANGED <<payload, page, row, drug_currents, drug_histories, name_map,
                   detail_map, external_status_map, raw_records, subs_to_items,
                   pairs, filtered_pairs, rows, response>>

Next ==
    \/ ResolveNames
    \/ QueryDetails
    \/ EnrichAndIndex
    \/ ExternalFilter
    \/ AssembleAndRespond
    \/ StoreFails

Spec == Init /\ [][Next]_vars

(* ---------------------------------------------------------------------- *)
(* Properties                                                              *)
(* ---------------------------------------------------------------------- *)
(* The index and the pairs are final once built, the filtered pairs once   *)
(* filtered: no later step assigns them, so each is examined where it is   *)
(* produced.                                                               *)
AfterIndex == pc = "paired"
AfterFilter == pc = "filtered"
Done == pc = "done"

Max(a, b) == IF a >= b THEN a ELSE b

ItemsUnder(sid) == IF sid \in DOMAIN subs_to_items THEN subs_to_items[sid] ELSE <<>>

(* C1: for page >= 1 and row >= 1 the response's total is the number of    *)
(* assembled rows, its data is exactly the rows at positions               *)
(* [(page-1)*row, (page-1)*row + row) that exist, and pagination.row is    *)
(* min(row, total - (page-1)*row) clamped at 0.                            *)
C1_Pagination ==
    Done =>
        LET total == Len(rows)
            start == (page - 1) * row
            n == Max(0, Min(row, total - start))
        IN  /\ response.pagination.total = total
            /\ response.pagination.row = n
            /\ response.pagination.page = page
            /\ Len(response.data) = n
            /\ \A k \in 1..n : response.data[k] = rows[start + k]

(* a page past the end of a non-empty result *)
C1_Witness ==
    /\ Done
    /\ Len(rows) > 0
    /\ (page - 1) * row >= Len(rows)
    /\ response.data = <<>>
    /\ response.pagination.row = 0
    /\ response.pagination.total = Len(rows)

(* C4: the pre-filter pair list holds exactly the pairs of distinct keys   *)
(* of the substance index, each once, smaller identifier first; every key  *)
(* has at least one contributing entry.                                    *)
C4_PairsExact ==
    AfterIndex =>
        LET keys == DOMAIN subs_to_items
        IN  /\ \A k \in keys : subs_to_items[k] # <<>>
            /\ Range(pairs) = {pr \in keys \X keys : pr[1] < pr[2]}
            /\ \A i, j \in 1..Len(pairs) : i # j => pairs[i] # pairs[j]
            /\ \A i \in 1..Len(pairs) : pairs[i][1] # pairs[i][2]

C4_Witness ==
    /\ AfterIndex
    /\ Cardinality(DOMAIN subs_to_items) = 3
    /\ Len(pairs) = 3

HasSubs(c) == c \in DOMAIN detail_map /\ detail_map[c].subs_codes # <<>>

FirstCodeWithSubs(it) ==
    LET codes == codes_from_item(it)
        hits == {k \in 1..Len(codes) : HasSubs(codes[k])}
    IN  IF hits = {} THEN None
        ELSE codes[CHOOSE k \in hits : \A m \in hits : k <= m]

SidsOfItem(it) ==
    IF FirstCodeWithSubs(it) = None THEN {}
    ELSE Range(detail_map[FirstCodeWithSubs(it)].subs_codes)

(* C7: each entry (currents first, then histories, in list order) is       *)
(* listed only under the substance identifiers of its first code, in       *)
(* codes_from_item order, whose detail record has a non-empty subs_codes   *)
(* list; an entry with no such code is listed nowhere.                     *)
C7_FirstCodeWins ==
    AfterIndex =>
        /\ DOMAIN subs_to_items = UNION {SidsOfItem(Items[r]) : r \in 1..Len(Items)}
        /\ \A sid \in DOMAIN subs_to_items :
               subs_to_items[sid] =
                   SelectSeq([r \in 1..Len(Items) |-> r],
                             LAMBDA r : sid \in SidsOfItem(Items[r]))

(* an entry with two codes that both map to substances: only the first counts *)
C7_Witness ==
    /\ AfterIndex
    /\ \E r \in 1..Len(Items) :
           LET codes == codes_from_item(Items[r])
           IN  /\ Len(codes) >= 2
               /\ HasSubs(codes[1])
               /\ HasSubs(codes[2])
               /\ detail_map[codes[1]].subs_codes # detail_map[codes[2]].subs_codes
               /\ \A sid \in DOMAIN subs_to_items :
                      r \in Range(subs_to_items[sid])
                          <=> sid \in Range(detail_map[codes[1]].subs_codes)

FlaggedExternal(r) ==
    /\ Items[r].tpu_code \in DOMAIN external_status_map
    /\ external_status_map[Items[r].tpu_code] = TRUE

TouchesExternal(pr) ==
    \E r \in Range(ItemsUnder(pr[1])) \cup Range(ItemsUnder(pr[2])) : FlaggedExternal(r)

PositionIn(s, x) == CHOOSE i \in 1..Len(s) : s[i] = x

(* C2: a candidate pair is absent from filtered_pairs iff some entry       *)
(* indexed under either of its substances has a tpu code whose external    *)
(* status is true; entries without tpu code and tpu codes missing from the *)
(* status map are internal; the kept pairs keep their order.               *)
C2_ExternalFilter ==
    AfterFilter =>
        /\ Range(filtered_pairs) \subseteq Range(pairs)
        /\ \A i \in 1..Len(pairs) :
               pairs[i] \notin Range(filtered_pairs) <=> TouchesExternal(pairs[i])
        /\ \A i, j \in 1..Len(filtered_pairs) :
               i < j => PositionIn(pairs, filtered_pairs[i])
                            < PositionIn(pairs, filtered_pairs[j])

(* a pair dropped because of an entry on its second side only *)
C2_Witness ==
    /\ AfterFilter
    /\ \E i \in 1..Len(pairs) :
           /\ pairs[i] \notin Range(filtered_pairs)
           /\ \A r \in Range(ItemsUnder(pairs[i][1])) : ~FlaggedExternal(r)
           /\ \E r \in Range(ItemsUnder(pairs[i][2])) : FlaggedExternal(r)

RecordExists(pr) ==
    \E i \in 1..Len(raw_records) :
        \/ raw_records[i].sub1_id = pr[1] /\ raw_records[i].sub2_id = pr[2]
        \/ raw_records[i].sub1_id = pr[2] /\ raw_records[i].sub2_id = pr[1]

RowsExist(pr) ==
    \E k \in 1..Len(rows) :
        {rows[k].input_substances, rows[k].contrast_substances} = {pr[1], pr[2]}

(* C3: a surviving pair yields rows iff fetch_contrasts returned a record  *)
(* for it under either ordering of the two substance ids.                  *)
C3_EitherOrdering ==
    Done => \A i \in 1..Len(filtered_pairs) :
                RecordExists(filtered_pairs[i]) <=> RowsExist(filtered_pairs[i])

(* a surviving pair whose only record is stored in the opposite order *)
C3_Witness ==
    /\ Done
    /\ \E i \in 1..Len(filtered_pairs) :
           LET pr == filtered_pairs[i]
           IN  /\ \A k \in 1..Len(raw_records) :
                      ~(raw_records[k].sub1_id = pr[1] /\ raw_records[k].sub2_id = pr[2])
               /\ \E k \in 1..Len(raw_records) :
                      raw_records[k].sub1_id = pr[2] /\ raw_records[k].sub2_id = pr[1]
               /\ RowsExist(pr)

PairsWithRecord == SelectSeq(filtered_pairs, RecordExists)

CrossSize(pr) == Len(ItemsUnder(pr[1])) * Len(ItemsUnder(pr[2]))

RECURSIVE RowsBefore(_)
RowsBefore(k) ==
    IF k <= 1 THEN 0 ELSE RowsBefore(k - 1) + CrossSize(PairsWithRecord[k - 1])

FromRecordOf(r, pr) ==
    \E i \in 1..Len(raw_records) :
        /\ {raw_records[i].sub1_id, raw_records[i].sub2_id} = {pr[1], pr[2]}
        /\ r.severity = raw_records[i].severity
        /\ r.input_substances = raw_records[i].sub1_id
        /\ r.contrast_substances = raw_records[i].sub2_id

(* C8: every surviving pair with a record contributes one row per          *)
(* combination of an entry listed under its first substance (input) and    *)
(* an entry listed under its second (contrast), with contrast_type 0 and   *)
(* the record's metadata; rows are grouped by pair in filtered-pair order  *)
(* and the total is the sum of the products.                               *)
C8_CrossJoin ==
    Done =>
        /\ Len(rows) = RowsBefore(Len(PairsWithRecord) + 1)
        /\ \A k \in 1..Len(PairsWithRecord) :
               LET pr == PairsWithRecord[k]
                   items1 == ItemsUnder(pr[1])
                   items2 == ItemsUnder(pr[2])
               IN  \A i \in 1..Len(items1) : \A j \in 1..Len(items2) :
                       LET r == rows[RowsBefore(k) + (i - 1) * Len(items2) + j]
                       IN  /\ r.input = items1[i]
                           /\ r.contrast = items2[j]
                           /\ r.input_fields = fill_codes("input", Items[items1[i]])
                           /\ r.contrast_fields = fill_codes("contrast", Items[items2[j]])
                           /\ r.contrast_type = 0
                           /\ FromRecordOf(r, pr)

(* a pair with more than one entry on one side *)
C8_Witness ==
    /\ Done
    /\ \E k \in 1..Len(PairsWithRecord) :
           /\ CrossSize(PairsWithRecord[k]) >= 2
           /\ Len(rows) >= 2

Completes == Next /\ pc' # "failed"

C9_ResolutionFrame ==
    pc # "start" =>
        \A i \in 1..Len(payload.drug_histories) :
            LET before == payload.drug_histories[i]
                after == drug_histories[i]
            IN  /\ codes_from_item(before) # <<>> => after.subs_code = before.subs_code
                /\ after.subs_code # before.subs_code =>
                       /\ before.name # NoName
                       /\ before.name \in DOMAIN name_map
                       /\ after.subs_code = name_map[before.name]

(* C10: in every row, input_substances is an identifier under which the    *)
(* row's input entry is indexed, and contrast_substances one under which   *)
(* its contrast entry is indexed.                                          *)
C10_SubstancesMatchEntries ==
    Done => \A k \in 1..Len(rows) :
                /\ rows[k].input \in Range(ItemsUnder(rows[k].input_substances))
                /\ rows[k].contrast \in Range(ItemsUnder(rows[k].contrast_substances))

NameOnly(it) == codes_from_item(it) = <<>> /\ it.name # NoName

Restrict(f, K) == [k \in DOMAIN f \cap K |-> f[k]]

SidsOfRef(idx, r) == {sid \in DOMAIN idx : r \in Range(idx[sid])}

ListUnder(idx, sid) == IF sid \in DOMAIN idx THEN idx[sid] ELSE <<>>

SameOutcome(idx) ==
    /\ GeneratePairs(idx) = pairs
    /\ \A sid \in DOMAIN idx \cup DOMAIN subs_to_items :
           Cardinality(DOMAIN subs_to_items) >= 2 =>
               ListUnder(idx, sid) = ListUnder(subs_to_items, sid)

DirectRunAgrees(i) ==
    LET S == name_map[payload.drug_histories[i].name]
        c0 == payload.drug_currents
        hA == ResolveHistories(payload.drug_histories, name_map)
        h0 == [payload.drug_histories EXCEPT ![i].subs_code = S]
        hB == ResolveHistories(h0, Restrict(name_map, Range(NamesToResolve(h0))))
        codesA == AllCodes(c0, hA)
        codesB == AllCodes(c0, hB)
    IN  \A dm \in QueryDetailsAnswers(codesB) :
            (\A c \in codesA \cap codesB :
                 /\ c \in DOMAIN dm <=> c \in DOMAIN detail_map
                 /\ c \in DOMAIN dm => dm[c] = detail_map[c])
            => LET idx == BuildIndex(enrich_items(c0, dm), enrich_items(hB, dm), dm)
                   r == Len(c0) + i
               IN  /\ SidsOfRef(idx, r) = SidsOfRef(subs_to_items, r)
                   /\ SameOutcome(idx)

(* C5: a history entry with only a name that resolve_names maps to S is    *)
(* indexed under the same identifiers, and the request yields the same     *)
(* pairs and cross joins, as the request submitted with subs_code = S on   *)
(* that entry, for every store answering both requests alike.              *)
C5_ResolvedLikeDirect ==
    AfterIndex =>
        \A i \in 1..Len(payload.drug_histories) :
            (NameOnly(payload.drug_histories[i])
                 /\ payload.drug_histories[i].name \in DOMAIN name_map)
            => DirectRunAgrees(i)

====
